---- MODULE Spec2Model ----
(***************************************************************************)
(* Event normalisation and upsert pipeline of the events backend:          *)
(*   backend/events_api.py  extract_venue_info, extract_classifications    *)
(*   backend/database.py    load_prg_data, _upsert_events, delete_table,   *)
(*                          execute_query, get_table_data, _init_database  *)
(*   backend/app.py         get_events_upcoming (GET /api/events)          *)
(*                                                                         *)
(* JSON / Python values are tagged records [t |-> type, v |-> payload].    *)
(* A Python exception is the value Raise; it propagates through every      *)
(* operator that consumes it, as an exception unwinds the expression.      *)
(***************************************************************************)
EXTENDS Integers, Sequences, FiniteSets, TLC

VARIABLES
    rows,        \* the rows of table events (a set of column records)
    tables,      \* the tables that exist in the database
    now,         \* the store's clock (CURRENT_TIMESTAMP)
    last,        \* the last operation: its name, arguments, result, time, the rows before it
    repeated,    \* the last operation was a committed upsert repeating the committed upsert before it
    raw,         \* the raw event handed to the pure functions
    res,         \* the function last applied to raw, and its result
    tx           \* two concurrent _upsert_events calls: the rows before them, and each
                 \* connection's batch, position, uncommitted rows and state

vars == <<rows, tables, now, last, repeated, raw, res, tx>>

-----------------------------------------------------------------------------
(* Bounds of the model *)

MaxClock == 2
MaxPages == 3
MaxBatch == 2

-----------------------------------------------------------------------------
(* Python / JSON values *)

None == [t |-> "null", v |-> ""]
Raise == [t |-> "raise", v |-> ""]
Absent == [t |-> "absent", v |-> ""]
Str(s) == [t |-> "str", v |-> s]
Bool(b) == [t |-> "bool", v |-> b]
Num(n) == [t |-> "int", v |-> n]
List(s) == [t |-> "list", v |-> s]
Dict(f) == [t |-> "dict", v |-> f]
EmptyDict == Dict(<<>>)
EmptyList == List(<<>>)

\* a dict literal of the keys whose value is not Absent
MkDict(f) == Dict([k \in {x \in DOMAIN f : f[x].t # "absent"} |-> f[k]])

\* Python truthiness, as `if venues:` / `if venue_info` / `if not events_data` test it
Truthy(x) ==
    CASE x.t = "null" -> FALSE
      [] x.t = "bool" -> x.v
      [] x.t = "int" -> x.v # 0
      [] x.t = "str" -> x.v # ""
      [] x.t = "list" -> Len(x.v) > 0
      [] x.t = "dict" -> DOMAIN x.v # {}
      [] OTHER -> FALSE

\* d.get(k, default): AttributeError unless d is a dict
Get(d, k, default) ==
    IF d.t # "dict" THEN Raise
    ELSE IF k \in DOMAIN d.v THEN d.v[k] ELSE default

\* x[0] of a truthy x: the first element of a list, KeyError on a mapping
\* (JSON keys are strings), a one-character str of a str, TypeError otherwise
Index0(x) ==
    CASE x.t = "list" -> x.v[1]
      [] x.t = "str" -> Str("c")
      [] OTHER -> Raise

\* a dict literal raises when the evaluation of one of its values raised
DictOrRaise(f) ==
    IF \E k \in DOMAIN f : f[k].t = "raise" THEN Raise ELSE Dict(f)

-----------------------------------------------------------------------------
(* backend/events_api.py *)

extract_venue_info_last(event) ==
    LET emb == Get(event, "_embedded", EmptyDict)
        venues == Get(emb, "venues", EmptyList)
    IN  IF venues.t = "raise" THEN Raise
        ELSE IF ~Truthy(venues) THEN None
        ELSE LET venue == IF venues.t = "list" THEN venues.v[Len(venues.v)] ELSE Index0(venues)
             IN  DictOrRaise([
                    id |-> Get(venue, "id", None),
                    name |-> Get(venue, "name", None),
                    address |-> Get(Get(venue, "address", EmptyDict), "line1", None),
                    city |-> Get(Get(venue, "city", EmptyDict), "name", None),
                    state |-> Get(Get(venue, "state", EmptyDict), "name", None),
                    country |-> Get(Get(venue, "country", EmptyDict), "name", None),
                    postal_code |-> Get(venue, "postalCode", None),
                    timezone |-> Get(venue, "timezone", None),
                    location |-> Get(venue, "location", EmptyDict)])

extract_venue_info(event) ==
    LET emb == Get(event, "_embedded", EmptyDict)
        venues == Get(emb, "venues", EmptyList)
    IN  IF venues.t = "raise" THEN Raise
        ELSE IF ~Truthy(venues) THEN None
        ELSE LET venue == Index0(venues)
             IN  DictOrRaise([
                    id |-> Get(venue, "id", None),
                    name |-> Get(venue, "name", None),
                    address |-> Get(Get(venue, "address", EmptyDict), "line1", None),
                    city |-> Get(Get(venue, "city", EmptyDict), "name", None),
                    state |-> Get(Get(venue, "state", EmptyDict), "name", None),
                    country |-> Get(Get(venue, "country", EmptyDict), "name", None),
                    postal_code |-> Get(venue, "postalCode", None),
                    timezone |-> Get(venue, "timezone", None),
                    location |-> Get(venue, "location", EmptyDict)])

extract_classifications(event) ==
    LET classifications == Get(event, "classifications", EmptyList)
    IN  IF classifications.t = "raise" THEN Raise
        ELSE IF ~Truthy(classifications) THEN None
        ELSE LET classification == Index0(classifications)
             IN  DictOrRaise([
                    segment |-> Get(Get(classification, "segment", EmptyDict), "name", None),
                    genre |-> Get(Get(classification, "genre", EmptyDict), "name", None),
                    subgenre |-> Get(Get(classification, "subGenre", EmptyDict), "name", None),
                    type |-> Get(Get(classification, "type", EmptyDict), "name", None),
                    subtype |-> Get(Get(classification, "subType", EmptyDict), "name", None),
                    family |-> Get(classification, "family", Bool(FALSE))])

-----------------------------------------------------------------------------
(* json.dumps with its default separators; a mapping's keys in KeyOrder *)

KeyOrder == <<"longitude", "latitude">>

RECURSIVE json_dumps(_)
RECURSIVE DumpItems(_, _)
RECURSIVE DumpPairs(_, _, _)

DumpItems(s, i) ==
    IF i > Len(s) THEN ""
    ELSE (IF i > 1 THEN ", " ELSE "") \o json_dumps(s[i]) \o DumpItems(s, i + 1)

DumpPairs(f, i, first) ==
    IF i > Len(KeyOrder) THEN ""
    ELSE IF KeyOrder[i] \notin DOMAIN f THEN DumpPairs(f, i + 1, first)
    ELSE (IF first THEN "" ELSE ", ") \o "\"" \o KeyOrder[i] \o "\": "
            \o json_dumps(f[KeyOrder[i]]) \o DumpPairs(f, i + 1, FALSE)

json_dumps(x) ==
    CASE x.t = "null" -> "null"
      [] x.t = "bool" -> (IF x.v THEN "true" ELSE "false")
      [] x.t = "str" -> "\"" \o x.v \o "\""
      [] x.t = "list" -> "[" \o DumpItems(x.v, 1) \o "]"
      [] x.t = "dict" -> "{" \o DumpPairs(x.v, 1, TRUE) \o "}"

-----------------------------------------------------------------------------
(* backend/database.py: the storage-mode record of load_prg_data *)

\* `info.get(k) if info else None`, with the default the code gives
IfInfo(info, k, getdefault, elsedefault) ==
    IF info.t = "raise" THEN Raise
    ELSE IF Truthy(info) THEN Get(info, k, getdefault) ELSE elsedefault

Columns == {"id", "name", "url", "date", "time", "datetime", "timezone", "status",
            "venue_id", "venue_name", "venue_address", "venue_city", "venue_state",
            "venue_country", "venue_postal_code", "venue_timezone", "venue_location",
            "classification_segment", "classification_genre", "classification_subgenre",
            "classification_type", "classification_subtype", "classification_family",
            "price_ranges", "images", "info", "please_note"}

\* the dict built for one event of the page, or Raise
transformed_event(event) ==
    LET venue_info == extract_venue_info(event)
        classification_info == extract_classifications(event)
        start == Get(Get(event, "dates", EmptyDict), "start", EmptyDict)
        d == [  id |-> Get(event, "id", None),
                name |-> Get(event, "name", None),
                url |-> Get(event, "url", None),
                date |-> Get(start, "localDate", None),
                time |-> Get(start, "localTime", None),
                datetime |-> Get(start, "dateTime", None),
                timezone |-> Get(Get(event, "dates", EmptyDict), "timezone", None),
                status |-> Get(Get(Get(event, "dates", EmptyDict), "status", EmptyDict), "code", None),
                venue_id |-> IfInfo(venue_info, "id", None, None),
                venue_name |-> IfInfo(venue_info, "name", None, None),
                venue_address |-> IfInfo(venue_info, "address", None, None),
                venue_city |-> IfInfo(venue_info, "city", None, None),
                venue_state |-> IfInfo(venue_info, "state", None, None),
                venue_country |-> IfInfo(venue_info, "country", None, None),
                venue_postal_code |-> IfInfo(venue_info, "postal_code", None, None),
                venue_timezone |-> IfInfo(venue_info, "timezone", None, None),
                venue_location |-> IfInfo(venue_info, "location", EmptyDict, EmptyDict),
                classification_segment |-> IfInfo(classification_info, "segment", None, None),
                classification_genre |-> IfInfo(classification_info, "genre", None, None),
                classification_subgenre |-> IfInfo(classification_info, "subgenre", None, None),
                classification_type |-> IfInfo(classification_info, "type", None, None),
                classification_subtype |-> IfInfo(classification_info, "subtype", None, None),
                classification_family |-> IfInfo(classification_info, "family", Bool(FALSE), Bool(FALSE)),
                price_ranges |-> Get(event, "priceRanges", EmptyList),
                images |-> Get(event, "images", EmptyList),
                info |-> Get(event, "info", None),
                please_note |-> Get(event, "pleaseNote", None)]
    IN  IF venue_info.t = "raise" \/ classification_info.t = "raise" THEN Raise
        ELSE DictOrRaise(d)

\* transform_event_simple with the genre in the place of the segment
transform_event_simple_genre(event) ==
    LET venue_info == extract_venue_info(event)
        classification_info == extract_classifications(event)
        start == Get(Get(event, "dates", EmptyDict), "start", EmptyDict)
    IN  DictOrRaise([id |-> Get(event, "id", None),
                     name |-> Get(event, "name", None),
                     date |-> Get(start, "localDate", None),
                     time |-> Get(start, "localTime", None),
                     venue_name |-> IfInfo(venue_info, "name", None, None),
                     classification |-> IfInfo(classification_info, "genre", None, None),
                     url |-> Get(event, "url", None)])

\* events_api.py: transform_event_simple, the reduced record of an event
transform_event_simple(event) ==
    LET venue_info == extract_venue_info(event)
        classification_info == extract_classifications(event)
        start == Get(Get(event, "dates", EmptyDict), "start", EmptyDict)
    IN  DictOrRaise([id |-> Get(event, "id", None),
                     name |-> Get(event, "name", None),
                     date |-> Get(start, "localDate", None),
                     time |-> Get(start, "localTime", None),
                     venue_name |-> IfInfo(venue_info, "name", None, None),
                     classification |-> IfInfo(classification_info, "segment", None, None),
                     url |-> Get(event, "url", None)])

-----------------------------------------------------------------------------
(* backend/database.py: table events and _upsert_events *)

\* the tables of the schema that the model follows, and the names delete_table is handed
AllTables == {"events"}
TableNames == {"events", "events_temp"}

JsonColumns == {"venue_location", "price_ranges", "images"}

\* the bound parameters of one INSERT: three columns go through json.dumps
RowParams(event) ==
    [c \in Columns |-> IF c \in JsonColumns THEN Str(json_dumps(event[c])) ELSE event[c]]

\* id TEXT PRIMARY KEY, name TEXT NOT NULL
ViolatesSchema(p) == p["id"].t = "null" \/ p["name"].t = "null"

\* the row a fresh INSERT leaves: created_at and updated_at default to CURRENT_TIMESTAMP
InsertedRow(p, ts) ==
    [c \in Columns \cup {"created_at", "updated_at"} |->
        IF c \in Columns THEN p[c] ELSE ts]

\* the columns of ON CONFLICT (id) DO UPDATE SET, besides updated_at
UpdateColumns == {"name", "url", "date", "time", "datetime", "status",
                  "venue_name", "venue_city"}

\* DO UPDATE SET with every inserted column taken from EXCLUDED
UpdatedRowEveryColumn(r, p, ts) ==
    [c \in DOMAIN r |->
        IF c \in Columns THEN p[c]
        ELSE IF c = "updated_at" THEN ts
        ELSE r[c]]

UpdatedRow(r, p, ts) ==
    [c \in DOMAIN r |->
        IF c \in UpdateColumns THEN p[c]
        ELSE IF c = "updated_at" THEN ts
        ELSE r[c]]

\* a plain INSERT that ignores the conflict on id
UpsertRowNoConflict(rs, p, ts) == rs \cup {InsertedRow(p, ts)}

\* an update whose target is not restricted to the conflicting id
UpsertRowAllRows(rs, p, ts) ==
    IF \E r \in rs : r["id"] = p["id"]
    THEN {UpdatedRow(r, p, ts) : r \in rs}
    ELSE rs \cup {InsertedRow(p, ts)}

\* INSERT ... ON CONFLICT (id) DO UPDATE SET ... of one row
UpsertRow(rs, p, ts) ==
    IF \E r \in rs : r["id"] = p["id"]
    THEN {IF r["id"] = p["id"] THEN UpdatedRow(r, p, ts) ELSE r : r \in rs}
    ELSE rs \cup {InsertedRow(p, ts)}

\* the store raises on row i: a transient error injected at failAt, a missing
\* table, or a constraint of the schema
RowFails(tbls, batch, i, failAt) ==
    \/ i = failAt
    \/ "events" \notin tbls
    \/ ViolatesSchema(RowParams(batch[i]))

RECURSIVE UpsertLoop(_, _, _, _, _, _)
\* the for loop over events_df.iterrows(): the first exception leaves the loop
UpsertLoop(rs, tbls, batch, i, failAt, ts) ==
    IF i > Len(batch) THEN [ok |-> TRUE, rows |-> rs]
    ELSE IF RowFails(tbls, batch, i, failAt) THEN [ok |-> FALSE, rows |-> rs]
    ELSE UpsertLoop(UpsertRow(rs, RowParams(batch[i]), ts), tbls, batch, i + 1, failAt, ts)

RECURSIVE SkipLoop(_, _, _, _, _, _)
SkipLoop(rs, tbls, batch, i, failAt, ts) ==
    IF i > Len(batch) THEN rs
    ELSE IF RowFails(tbls, batch, i, failAt) THEN SkipLoop(rs, tbls, batch, i + 1, failAt, ts)
    ELSE SkipLoop(UpsertRow(rs, RowParams(batch[i]), ts), tbls, batch, i + 1, failAt, ts)

\* a per-row try/except: the failing row is skipped, the rest is committed
_upsert_events_skip(rs, tbls, batch, failAt, ts) ==
    [ret |-> Bool(TRUE), rows |-> SkipLoop(rs, tbls, batch, 1, failAt, ts)]

\* the except branch answers True
_upsert_events_true(rs, tbls, batch, failAt, ts) ==
    LET r == UpsertLoop(rs, tbls, batch, 1, failAt, ts)
    IN  IF r.ok THEN [ret |-> Bool(TRUE), rows |-> r.rows]
        ELSE [ret |-> Bool(TRUE), rows |-> rs]

\* one connection, one commit after the loop; an exception closes the
\* connection without commit, which rolls every row of the batch back
_upsert_events(rs, tbls, batch, failAt, ts) ==
    LET r == UpsertLoop(rs, tbls, batch, 1, failAt, ts)
    IN  IF r.ok THEN [ret |-> Bool(TRUE), rows |-> r.rows]
        ELSE [ret |-> Bool(FALSE), rows |-> rs]

\* load_prg_data after the remote call: resp is the payload, or Raise
load_prg_data(rs, tbls, resp, failAt, ts) ==
    LET events_data == Get(Get(resp, "_embedded", EmptyDict), "events", EmptyList)
        none == [ret |-> Bool(FALSE), rows |-> rs, batch |-> <<>>, wrote |-> FALSE]
    IN  IF events_data.t = "raise" THEN none
        ELSE IF ~Truthy(events_data) THEN none
        ELSE LET transformed_events ==
                    [i \in 1..Len(events_data.v) |-> transformed_event(events_data.v[i])]
             IN  IF \E i \in DOMAIN transformed_events : transformed_events[i].t = "raise"
                 THEN none
                 ELSE LET events_df == [i \in DOMAIN transformed_events |-> transformed_events[i].v]
                          success == _upsert_events(rs, tbls, events_df, failAt, ts)
                      IN  [ret |-> success.ret, rows |-> success.rows,
                           batch |-> events_df, wrote |-> TRUE]

-----------------------------------------------------------------------------
(* backend/database.py: delete_table, execute_query, the constructor *)

\* delete_table: False when the table is not there or the store fails,
\* otherwise DROP TABLE ... CASCADE, committed
delete_table(rs, tbls, table_name, fails) ==
    IF fails \/ table_name \notin tbls
    THEN [ret |-> Bool(FALSE), rows |-> rs, tables |-> tbls]
    ELSE [ret |-> Bool(TRUE),
          rows |-> IF table_name = "events" THEN {} ELSE rs,
          tables |-> tbls \ {table_name}]

\* the statements delete_table sends: the existence check binds the name as a
\* parameter, the DROP is an f-string around it
delete_table_sql(tbls, table_name) ==
    <<"SELECT table_name FROM information_schema.tables WHERE table_schema = 'public' AND table_name = :table_name">>
        \o (IF table_name \in tbls THEN <<"DROP TABLE " \o table_name \o " CASCADE">> ELSE <<>>)

\* the statement of get_table_data: f"SELECT * FROM {table_name}", and
\* f" LIMIT {limit}" when limit is truthy (limit is None or an int)
get_table_data_sql(table_name, limit) ==
    "SELECT * FROM " \o table_name
        \o (IF Truthy(limit) THEN " LIMIT " \o ToString(limit.v) ELSE "")

\* Python's min of two ints
PyMin(a, b) == IF a <= b THEN a ELSE b

\* get_table_data: the frames the call can return: the rows of the table, any
\* limit of them under LIMIT, the empty frame on any error
get_table_data(rs, tbls, table_name, limit, fails) ==
    IF fails \/ table_name \notin tbls THEN {{}}
    ELSE IF Truthy(limit)
         THEN {f \in SUBSET rs : Cardinality(f) = PyMin(limit.v, Cardinality(rs))}
         ELSE {rs}

\* the statements of get_events_upcoming; the two replace calls on base_query
\* find nothing to replace
base_query == "SELECT * FROM events WHERE date >= ? AND date <= ?"
columns_query == "PRAGMA table_info(events)"
total_count_query == "SELECT COUNT(*) FROM (" \o base_query \o ")"

Queries == {"SELECT COUNT(*) FROM events", "DELETE FROM events"}

\* the number of ? placeholders of a statement
Placeholders(query) == IF query \in {base_query, total_count_query} THEN 2 ELSE 0

\* PostgreSQL raises on a ? that no value is bound to (execute_query is handed
\* the text alone) and on PRAGMA, which is not one of its statements
ServerRejects(query, params) ==
    \/ Placeholders(query) > Len(params)
    \/ query = columns_query

\* execute_query: the fetched rows, [] on any error (a statement that returns
\* no rows included); it never commits, so the connection's close rolls back
\* whatever the statement did
execute_query(rs, tbls, query, fails) ==
    IF fails \/ "events" \notin tbls \/ ServerRejects(query, <<>>) THEN EmptyList
    ELSE IF query = "SELECT COUNT(*) FROM events" THEN List(<< <<Cardinality(rs)>> >>)
    ELSE EmptyList

\* PostgreSQLDatabaseAPI.__init__ -> _init_database: CREATE TABLE IF NOT EXISTS
_init_database(tbls) == AllTables

-----------------------------------------------------------------------------
(* backend/app.py: the per-row block of get_events_upcoming *)

\* the lists and mappings the raw events of the model carry
JsonCandidates ==
    { EmptyList, EmptyDict,
      List(<<Str("p1"), Str("p2")>>), List(<<Str("i1")>>),
      Dict([longitude |-> Str("14.4"), latitude |-> Str("50.1")]) }

\* json.loads: TypeError unless handed text, JSONDecodeError on other text
json_loads(x) ==
    IF x.t # "str" THEN Raise
    ELSE IF \E v \in JsonCandidates : json_dumps(v) = x.v
         THEN CHOOSE v \in JsonCandidates : json_dumps(v) = x.v
         ELSE Raise

\* the decoding without its try/except: the exception escapes
DecodeOrNoExcept(event, k, empty) ==
    IF Truthy(Get(event, k, None)) THEN json_loads(Get(event, k, None)) ELSE empty

\* json.loads(event.get(k, d)) if event.get(k) else empty, except: empty
DecodeOr(event, k, empty) ==
    IF Truthy(Get(event, k, None))
    THEN LET v == json_loads(Get(event, k, None)) IN IF v.t = "raise" THEN empty ELSE v
    ELSE empty

\* the venue is re-embedded whenever any venue column holds a value
DenormalizeRowAnyVenueColumn(event) ==
    Dict([  id |-> Get(event, "id", None),
            venue |-> IF \E c \in {"venue_id", "venue_name", "venue_city", "venue_location"} :
                            Truthy(Get(event, c, None))
                      THEN Dict([name |-> Get(event, "venue_name", None)])
                      ELSE None])

\* one row of the listing, as the response carries it
DenormalizeRow(event) ==
    LET price_ranges == DecodeOr(event, "price_ranges", EmptyList)
        images == DecodeOr(event, "images", EmptyList)
        venue_location == DecodeOr(event, "venue_location", EmptyDict)
        venue_info ==
            IF Truthy(Get(event, "venue_name", None))
            THEN Dict([ id |-> Get(event, "venue_id", None),
                        name |-> Get(event, "venue_name", None),
                        address |-> Get(event, "venue_address", None),
                        city |-> Get(event, "venue_city", None),
                        state |-> Get(event, "venue_state", None),
                        country |-> Get(event, "venue_country", None),
                        postal_code |-> Get(event, "venue_postal_code", None),
                        timezone |-> Get(event, "venue_timezone", None),
                        location |-> venue_location])
            ELSE None
        classifications_info ==
            IF Truthy(Get(event, "classification_segment", None))
            THEN Dict([ segment |-> Get(event, "classification_segment", None),
                        genre |-> Get(event, "classification_genre", None),
                        subgenre |-> Get(event, "classification_subgenre", None),
                        type |-> Get(event, "classification_type", None),
                        subtype |-> Get(event, "classification_subtype", None),
                        family |-> Bool(Truthy(Get(event, "classification_family", Bool(FALSE))))])
            ELSE None
    IN  Dict([  id |-> Get(event, "id", None),
                name |-> Get(event, "name", None),
                url |-> Get(event, "url", None),
                date |-> Get(event, "date", None),
                time |-> Get(event, "time", None),
                datetime |-> Get(event, "datetime", None),
                timezone |-> Get(event, "timezone", None),
                status |-> Get(event, "status", None),
                venue |-> venue_info,
                classifications |-> classifications_info,
                price_ranges |-> price_ranges,
                images |-> images,
                info |-> Get(event, "info", None),
                please_note |-> Get(event, "please_note", None)])

\* a stored row as the mapping of its columns
RowDict(r) == Dict([c \in Columns |-> r[c]])

\* the row as the driver fetches it: a JSONB column comes back as its text or,
\* when the driver has a JSONB typecaster, as the decoded list or mapping
FetchedRow(r, decoded) ==
    [c \in DOMAIN r |->
        IF decoded /\ c \in JsonColumns /\ r[c].t = "str" THEN json_loads(r[c]) ELSE r[c]]

\* the for loop over events_list: one response event per row
TransformRows(events_list) ==
    [i \in DOMAIN events_list |-> DenormalizeRow(events_list[i])]

\* classification.split(',') with each part stripped and the empty parts dropped
ClassificationList(classification) ==
    CASE classification = "all" -> <<"all">>
      [] classification = "music,sports" -> <<"music", "sports">>
      [] classification = " MUSIC ,," -> <<"MUSIC">>
      [] classification = "" -> <<>>

\* dict(zip(column_names, row)): the pairs up to the shorter of the two
EventDict(column_names, row) ==
    LET n == PyMin(Len(column_names), Len(row))
    IN  Dict([k \in {column_names[j] : j \in 1..n} |->
                row[CHOOSE j \in 1..n : column_names[j] = k
                        /\ \A j2 \in 1..n : column_names[j2] = k => j2 <= j]])

\* the handler from its try on: req holds the parsed query parameters, today
\* the day of the request; the dates of the window are day numbers
get_events_upcoming(rs, tbls, req, today, fails) ==
    LET start_date == today
        end_date == today + req.days_ahead
        classification_list == ClassificationList(req.classification)
        events_data == execute_query(rs, tbls, base_query, fails)
        column_info == execute_query(rs, tbls, columns_query, fails)
        column_names == [i \in DOMAIN column_info.v |-> column_info.v[i][2]]
        events_list == [i \in DOMAIN events_data.v |-> EventDict(column_names, events_data.v[i])]
        transformed_events == TransformRows(events_list)
        total_result == execute_query(rs, tbls, total_count_query, fails)
        total_events == IF Truthy(total_result) THEN total_result.v[1][1] ELSE 0
        events_per_page == PyMin(req.size, 200)
    IN  IF events_per_page = 0
        THEN Dict([error |-> "integer division or modulo by zero", status |-> "error",
                   message |-> "Failed to fetch upcoming events from database",
                   code |-> 500])
        ELSE Dict([events |-> transformed_events,
                   pagination |-> [
                        total_events |-> total_events,
                        total_pages |-> (total_events + events_per_page - 1) \div events_per_page,
                        current_page |-> 0,
                        events_per_page |-> events_per_page,
                        events_on_page |-> Len(transformed_events)],
                   filters_applied |-> [
                        city |-> req.city,
                        country |-> req.country,
                        classifications |-> classification_list,
                        keyword |-> req.keyword,
                        date_range |-> [from |-> start_date, to |-> end_date,
                                        days_ahead |-> req.days_ahead]],
                   status |-> "success",
                   code |-> 200])

\* the handler with the count query sent a second time
get_events_upcoming_sql_recount(req) ==
    <<base_query, columns_query, total_count_query, total_count_query>>

\* the statements the handler hands to execute_query, in order
get_events_upcoming_sql(req) == <<base_query, columns_query, total_count_query>>

\* the statements of _init_database, one connection, one commit
_init_database_sql ==
    << "CREATE TABLE IF NOT EXISTS events", "CREATE TABLE IF NOT EXISTS users",
       "CREATE TABLE IF NOT EXISTS user_events",
       "CREATE INDEX IF NOT EXISTS idx_events_date", "CREATE INDEX IF NOT EXISTS idx_events_city",
       "CREATE INDEX IF NOT EXISTS idx_events_classification",
       "CREATE INDEX IF NOT EXISTS idx_users_telegram_id",
       "CREATE OR REPLACE FUNCTION update_updated_at_column",
       "DROP TRIGGER IF EXISTS update_events_updated_at; CREATE TRIGGER update_events_updated_at" >>

\* the values of DATABASE_URL: unset, empty, the two PostgreSQL schemes, another store
DatabaseUrls == {None, Str(""), Str("postgres://u@h/db"), Str("postgresql://u@h/db"),
                 Str("sqlite:///events.db")}

\* the deployed DATABASE_URL
DeployedUrl == Str("postgresql://u@h/db")

\* 'postgresql' in database_url
InPostgresql(url) == url = "postgresql://u@h/db"

\* database_url.startswith('postgres://')
StartsWithPostgres(url) == url = "postgres://u@h/db"

\* the factory with 'postgres' in database_url as its test
create_database_api_postgres(database_url, initFails) ==
    IF Truthy(database_url) /\ (InPostgresql(database_url.v) \/ StartsWithPostgres(database_url.v))
    THEN IF initFails THEN Raise ELSE Dict([database_url |-> Str("postgresql://u@h/db")])
    ELSE None

\* PostgreSQLDatabaseAPI(database_url): ValueError without a URL, the exception
\* of _init_database when the store cannot be reached (initFails), otherwise
\* the API object with the URL it connects to
PostgreSQLDatabaseAPI(database_url, initFails) ==
    IF ~Truthy(database_url) THEN Raise
    ELSE IF initFails THEN Raise
    ELSE Dict([database_url |->
                IF StartsWithPostgres(database_url.v) THEN Str("postgresql://u@h/db")
                ELSE database_url])

\* the factory: the function ends without a return in every other case
create_database_api(database_url, initFails) ==
    IF Truthy(database_url) /\ InPostgresql(database_url.v)
    THEN PostgreSQLDatabaseAPI(database_url, initFails)
    ELSE None

\* int(text) of a query parameter: ValueError on text that is no number
IntTexts == {0, 1, 50, 90, 250}
int(text) ==
    IF \E n \in IntTexts : ToString(n) = text
    THEN Num(CHOOSE n \in IntTexts : ToString(n) = text)
    ELSE Raise

\* the HTTP answer to an exception that leaves the view function
Unhandled == [t |-> "html", v |-> [code |-> 500]]

\* the envelope of the except branch
ErrorEnvelope(e) ==
    Dict([error |-> e, status |-> "error",
          message |-> "Failed to fetch upcoming events from database", code |-> 500])

\* the query parameters as parsed before the try; Raise when int() raises
ParsedArgs(args) ==
    LET days_ahead == int(args.days_ahead)
        size == int(args.size)
    IN  IF days_ahead = Raise \/ size = Raise THEN Raise
        ELSE Dict([city |-> args.city, country |-> args.country, days_ahead |-> days_ahead.v,
                   classification |-> args.classification, size |-> size.v,
                   keyword |-> args.keyword])

\* GET /api/events: args are the query parameters with their defaults filled
\* in, failure is where the store fails during the request ("none", "init",
\* "query")
api_events(rs, tbls, database_url, args, today, failure) ==
    LET req == ParsedArgs(args)
        db == create_database_api(database_url, failure = "init")
    IN  IF req = Raise THEN Unhandled
        ELSE IF db = Raise THEN ErrorEnvelope("could not connect to server")
        ELSE IF db = None
             THEN ErrorEnvelope("'NoneType' object has no attribute 'execute_query'")
        ELSE get_events_upcoming(rs, _init_database(tbls), req.v, today, failure = "query")

\* what create_database_api() gives the handler: Absent when the handler does
\* not get to the call
api_events_db(database_url, args, failure) ==
    IF ParsedArgs(args) = Raise THEN Absent
    ELSE create_database_api(database_url, failure = "init")

\* the statements GET /api/events sends to the store
api_events_sql(database_url, args, failure) ==
    IF ParsedArgs(args) = Raise THEN <<>>
    ELSE IF create_database_api(database_url, failure = "init").t # "dict" THEN <<>>
    ELSE _init_database_sql \o get_events_upcoming_sql(ParsedArgs(args).v)

-----------------------------------------------------------------------------
(* Raw event records, as the remote event search returns them *)

V1 == Dict([id |-> Str("v1"), name |-> Str("Blue Note"),
            address |-> Dict([line1 |-> Str("Main 1")]),
            city |-> Dict([name |-> Str("Prague")]),
            country |-> Dict([name |-> Str("Czechia")]),
            postalCode |-> Str("11000"), timezone |-> Str("Europe/Prague"),
            location |-> Dict([longitude |-> Str("14.4"), latitude |-> Str("50.1")])])
V2 == Dict([name |-> Str("O2 Arena"), city |-> Dict([name |-> Str("Berlin")])])
VNoFields == EmptyDict
VNullCity == Dict([name |-> Str("Lucerna"), city |-> None])
VEmptyName == Dict([name |-> Str(""), city |-> Dict([name |-> Str("Prague")])])

CMusic == Dict([segment |-> Dict([name |-> Str("Music")]),
                genre |-> Dict([name |-> Str("Jazz")]), family |-> Bool(FALSE)])
CSports == Dict([segment |-> Dict([name |-> Str("Sports")]),
                 genre |-> Dict([name |-> Str("Football")]), family |-> Bool(TRUE)])
CNullSegment == Dict([segment |-> None])
CEmptySegment == Dict([segment |-> Dict([name |-> Str("")]),
                       genre |-> Dict([name |-> Str("Jazz")])])

D1 == Dict([start |-> Dict([localDate |-> Str("2025-07-01"), localTime |-> Str("20:00"),
                            dateTime |-> Str("2025-07-01T18:00:00Z")]),
            timezone |-> Str("Europe/Prague"),
            status |-> Dict([code |-> Str("onsale")])])
D2 == Dict([start |-> Dict([localDate |-> Str("2025-07-02")]),
            status |-> Dict([code |-> Str("cancelled")])])

Venues(x) == Dict("venues" :> x)

RawEvent(id, name, url, dates, emb, cls, pr, imgs) ==
    MkDict(("id" :> id) @@ ("name" :> name) @@ ("url" :> url) @@ ("dates" :> dates)
           @@ ("_embedded" :> emb) @@ ("classifications" :> cls)
           @@ ("priceRanges" :> pr) @@ ("images" :> imgs))

VenueLists ==
    { None, EmptyList, List(<<V1>>), List(<<V2>>), List(<<V1, V2>>), List(<<V2, V1>>),
      List(<<VNoFields>>), List(<<VEmptyName>>), List(<<VNullCity, V1>>), List(<<V1, VNullCity>>),
      Dict("0" :> V1), Str("venues") }

Embeddeds == {Absent, None, EmptyDict} \cup {Venues(x) : x \in VenueLists}

ClassificationLists ==
    { Absent, None, EmptyList, List(<<CMusic>>), List(<<CMusic, CSports>>),
      List(<<CSports, CMusic>>), List(<<CNullSegment, CMusic>>), List(<<CEmptySegment>>),
      Dict("0" :> CMusic), Str("music") }

\* the inputs of the pure functions
PriceRangesAndImages ==
    { <<Absent, Absent>>, <<EmptyList, Absent>>,
      <<List(<<Str("p1"), Str("p2")>>), List(<<Str("i1")>>)>> }

RawEvents ==
    { RawEvent(Str("E1"), name, Absent, dates, emb, cls, pi[1], pi[2]) :
        name \in {Absent, Str("Jazz Night")}, dates \in {Absent, None, D1},
        emb \in Embeddeds, cls \in ClassificationLists, pi \in PriceRangesAndImages }

\* the raw events of the remote pages
L1 == RawEvent(Str("E1"), Str("Jazz Night"), Str("u1"), D1, Venues(List(<<V1, V2>>)),
               List(<<CMusic, CSports>>), List(<<Str("p1"), Str("p2")>>), List(<<Str("i1")>>))
L2 == RawEvent(Str("E1"), Str("Jazz Night II"), Str("u2"), D2, Venues(List(<<V2>>)),
               List(<<CSports>>), Absent, Absent)
L3 == RawEvent(Str("E2"), Str("Derby"), Absent, Absent, Absent, Absent, Absent, Absent)
L4 == RawEvent(Str("E2"), Absent, Absent, Absent, Absent, Absent, Absent, Absent)
L5 == RawEvent(Str("E2"), Str("Derby"), Absent, Absent, None, Absent, Absent, Absent)

\* a remote page holds events among these; _upsert_events is handed the
\* storage-mode records of those
PageEvents == {L1, L4, L5}
BatchEvents == {L1, L2, L3, L4}

RECURSIVE SeqsUpTo(_, _)
\* the sequences of at most n different elements of S
SeqsUpTo(S, n) ==
    IF n = 0 THEN {<<>>}
    ELSE LET shorter == SeqsUpTo(S, n - 1)
         IN  shorter \cup UNION {{Append(q, x) : x \in S \ {q[i] : i \in DOMAIN q}} : q \in shorter}

\* what the remote call hands back: a page, a payload without events, or an exception
Responses ==
    {Raise, EmptyDict}
        \cup {Dict("_embedded" :> Dict("events" :> List(q))) : q \in SeqsUpTo(PageEvents, MaxBatch)}

\* what the network does with one GET of the event search: a transport error
\* (error), or an HTTP response with its status code and body
Ok(payload) == [error |-> "none", status |-> 200, body |-> payload]
ConnectionError == [error |-> "ConnectionError", status |-> 0, body |-> None]
Timeout == [error |-> "Timeout", status |-> 0, body |-> None]
NotFound == [error |-> "none", status |-> 404, body |-> Dict([fault |-> Str("not found")])]
Unavailable == [error |-> "none", status |-> 503, body |-> Str("<html>503</html>")]
BadJson == [error |-> "none", status |-> 200, body |-> Str("<html>")]
RemoteFailures == {ConnectionError, Timeout, NotFound, Unavailable, BadJson}
RemoteOutcomes == RemoteFailures \cup {Ok(resp) : resp \in Responses \ {Raise}}

\* get_events with a second requests.get after a failed one
get_events_retry(net) ==
    LET first == Head(net)
        failed == first.error # "none" \/ first.status >= 400 \/ first.body.t # "dict"
        response == IF failed THEN net[2] ELSE first
    IN  [ret |-> IF response.error # "none" THEN Raise
                 ELSE IF response.status >= 400 THEN Raise
                 ELSE IF response.body.t # "dict" THEN Raise
                 ELSE response.body,
         net |-> IF failed THEN Tail(Tail(net)) ELSE Tail(net)]

\* get_events: one requests.get (net is what the network answers to the calls
\* to come, in order), raise_for_status, response.json(); each except clause
\* prints and re-raises
get_events(net) ==
    LET response == Head(net)
    IN  [ret |-> IF response.error # "none" THEN Raise
                 ELSE IF response.status >= 400 THEN Raise
                 ELSE IF response.body.t # "dict" THEN Raise
                 ELSE response.body,
         net |-> Tail(net)]

\* the answer of get_events_all_pages: the events, and the pages it asked for
Fetched(all_events, requested) == [ret |-> List(all_events), requested |-> requested]

RECURSIVE PagesLoopOn(_, _, _, _, _)
\* the loop with page += 1 in the except branch
PagesLoopOn(site, max_pages, page, all_events, requested) ==
    IF ~(page < max_pages) THEN Fetched(all_events, requested)
    ELSE LET response == get_events(<<site[page + 1]>>).ret
             events == Get(Get(response, "_embedded", EmptyDict), "events", EmptyList)
             asked == Append(requested, page)
         IN  IF events.t = "raise"
             THEN PagesLoopOn(site, max_pages, page + 1, all_events, asked)
             ELSE IF ~Truthy(events) THEN Fetched(all_events, asked)
             ELSE LET totalPages == Get(Get(response, "page", EmptyDict), "totalPages", Num(1))
                  IN  IF totalPages.t # "int"
                      THEN PagesLoopOn(site, max_pages, page + 1, all_events \o events.v, asked)
                      ELSE IF page >= totalPages.v - 1
                      THEN Fetched(all_events \o events.v, asked)
                      ELSE PagesLoopOn(site, max_pages, page + 1, all_events \o events.v, asked)

get_events_all_pages_on(max_pages, site) == PagesLoopOn(site, max_pages, 0, <<>>, <<>>)

RECURSIVE PagesLoop(_, _, _, _, _)
\* the while loop of get_events_all_pages: site[page + 1] is what the remote
\* answers to the request of the page; every exception inside the try leaves
\* the loop, after all_events.extend when it is raised by the page info
PagesLoop(site, max_pages, page, all_events, requested) ==
    IF ~(page < max_pages) THEN Fetched(all_events, requested)
    ELSE LET response == get_events(<<site[page + 1]>>).ret
             events == Get(Get(response, "_embedded", EmptyDict), "events", EmptyList)
             asked == Append(requested, page)
         IN  IF events.t = "raise" THEN Fetched(all_events, asked)
             ELSE IF ~Truthy(events) THEN Fetched(all_events, asked)
             ELSE LET totalPages == Get(Get(response, "page", EmptyDict), "totalPages", Num(1))
                  IN  IF totalPages.t # "int" THEN Fetched(all_events \o events.v, asked)
                      ELSE IF page >= totalPages.v - 1
                      THEN Fetched(all_events \o events.v, asked)
                      ELSE PagesLoop(site, max_pages, page + 1, all_events \o events.v, asked)

\* get_events_all_pages(api_key, max_pages, **kwargs): api_key is not used
get_events_all_pages(max_pages, site) == PagesLoop(site, max_pages, 0, <<>>, <<>>)

\* a page of the remote search: its events and its page info
Page(events, totalPages) ==
    Dict(("_embedded" :> Dict("events" :> List(events)))
         @@ ("page" :> MkDict("totalPages" :> totalPages)))

\* what the remote answers to the request of one page: a failure, a payload
\* without events, a page without events, or a page of one or two events
\* whose page info has no totalPages, a totalPages or null in its place
PageOutcomes ==
    {ConnectionError, Ok(EmptyDict), Ok(Page(<<>>, Num(9)))}
        \cup {Ok(Page(events, totalPages)) :
                events \in {<<L3>>, <<L4, L5>>}, totalPages \in {Absent, Num(2), Num(9), None}}

\* the remote search as get_events_all_pages meets it: an answer for each of
\* the pages 0 .. MaxPages - 1
Sites == [1..MaxPages -> PageOutcomes]

\* how a remote call failed: the transport error, HTTPError for a status
\* raise_for_status rejects, JSONDecodeError for a body that is no JSON
RemoteFailure(outcome) ==
    IF outcome.error # "none" THEN outcome.error
    ELSE IF outcome.status >= 400 THEN "HTTPError"
    ELSE IF outcome.body.t # "dict" THEN "JSONDecodeError"
    ELSE "none"

\* the storage-mode records _upsert_events is handed
StorageEvents == {transformed_event(e).v : e \in BatchEvents}
Batches == SeqsUpTo(StorageEvents, MaxBatch)

-----------------------------------------------------------------------------
(* The store and its operations.  A caller starts an operation when no result
   is pending (last.op = "none"); the operation runs as one step and leaves
   its result in last; the caller then drops the result (Return) or, for an
   upsert, issues the same call once more (UpsertAgain). *)

\* no concurrent upserts
NoTx == [before |-> {}, conn |-> <<>>]

NoOp == [op |-> "none", arg |-> None, batch |-> <<>>, failAt |-> 0,
         ret |-> None, before |-> {}, ts |-> 0, sql |-> <<>>,
         url |-> None, failure |-> "none", remote |-> 0, db |-> Absent]

\* the INSERT ... ON CONFLICT statement of _upsert_events; the values of the
\* row are its bound parameters
insert_query == "INSERT INTO events (...) VALUES (:id, :name, ...) ON CONFLICT (id) DO UPDATE SET ..."

\* the statements an upsert of the batch sends: one per row, up to the first
\* row the store rejects
UpsertSql(tbls, batch, failAt) ==
    LET sent == {i \in DOMAIN batch : \A j \in 1..(i - 1) : ~RowFails(tbls, batch, j, failAt)}
    IN  [i \in 1..Cardinality(sent) |-> insert_query]

\* database_ctrl.py: the cities populate_events_database loops over; the
\* loop hands none of them to load_prg_data
cities_to_populate == <<"Prague", "Berlin", "Vienna", "Munich", "Bratislava">>

\* the value of an expression, computed once: S is the set of that one value
Only(S) == CHOOSE x \in S : TRUE

\* the end of one iteration of the for loop: success is what load_prg_data
\* returned, and is only counted; batch collects the records of the loads
\* that were committed
PopulateNext(loop, success, tbls) ==
    [rows |-> success.rows, net |-> Tail(loop.net),
     sql |-> loop.sql \o UpsertSql(tbls, success.batch, 0),
     batch |-> loop.batch \o (IF success.ret = Bool(TRUE) THEN success.batch ELSE <<>>)]

\* one iteration: db.load_prg_data(), whatever the city
PopulateCity(loop, tbls, ts) ==
    Only({PopulateNext(loop, success, tbls) :
            success \in {load_prg_data(loop.rows, tbls, get_events(loop.net).ret, 0, ts)}})

\* the for loop over the five entries of cities_to_populate
PopulateLoop(rs, tbls, net, ts, sql) ==
    LET after[k \in 0..Len(cities_to_populate)] ==
            IF k = 0 THEN [rows |-> rs, net |-> net, sql |-> sql, batch |-> <<>>]
            ELSE Only({PopulateCity(loop, tbls, ts) : loop \in {after[k - 1]}})
    IN  after[Len(cities_to_populate)]

\* after the loop: the look at one row of events, the count when there is
\* one, and True
PopulateEnd(loop, tbls, sent, db) ==
    [ret |-> Bool(TRUE), rows |-> loop.rows, tables |-> tbls,
     remote |-> sent - Len(loop.net), batch |-> loop.batch,
     sql |-> loop.sql \o <<get_table_data_sql("events", Num(1))>>
               \o (IF loop.rows # {} THEN <<"SELECT COUNT(*) FROM events">> ELSE <<>>),
     db |-> db]

\* what populate_events_database does with the value of create_database_api():
\* False when it raised or is None (db.load_prg_data raises AttributeError
\* inside the try), otherwise the loop and its end
PopulateWith(db, rs, tbls, net, ts) ==
    IF db.t # "dict"
    THEN [ret |-> Bool(FALSE), rows |-> rs, tables |-> tbls, remote |-> 0, batch |-> <<>>,
          sql |-> <<>>, db |-> db]
    ELSE Only({PopulateEnd(loop, _init_database(tbls), Len(net), db) :
                loop \in {PopulateLoop(rs, _init_database(tbls), net, ts, _init_database_sql)}})

populate_events_database(rs, tbls, database_url, initFails, net, ts) ==
    PopulateWith(create_database_api(database_url, initFails), rs, tbls, net, ts)

\* what the remote answers to the five searches of one population run
PopulateNets ==
    { [k \in DOMAIN cities_to_populate |-> ConnectionError],
      [k \in DOMAIN cities_to_populate |->
            IF k = 1 THEN Timeout ELSE Ok(Dict("_embedded" :> Dict("events" :> List(<<L1>>))))],
      [k \in DOMAIN cities_to_populate |-> Ok(Dict("_embedded" :> Dict("events" :> List(<<L5>>))))] }

\* the population runs: each DATABASE_URL with a remote that is down, the
\* deployed one also with a store that is down and with a remote that answers
PopulateCalls ==
    {[url |-> u, initFails |-> FALSE, net |-> [k \in DOMAIN cities_to_populate |-> ConnectionError]] :
        u \in DatabaseUrls}
    \cup {[url |-> DeployedUrl, initFails |-> f, net |-> n] : f \in BOOLEAN, n \in PopulateNets}

\* the query parameters of GET /api/events after parsing
AllRequest == [city |-> Str("all"), country |-> Str("all"), days_ahead |-> 90,
               classification |-> "all", size |-> 50, keyword |-> None]
DefaultRequest == [city |-> Str("Berlin"), country |-> Str("CZ"), days_ahead |-> 90,
                   classification |-> "music,sports", size |-> 50, keyword |-> None]
Requests ==
    {DefaultRequest, AllRequest}
        \cup {[AllRequest EXCEPT !.city = Str(c)] : c \in {"prague", "Berlin"}}
        \cup {[AllRequest EXCEPT !.country = Str("czechia")]}
        \cup {[AllRequest EXCEPT !.classification = c] : c \in {"music,sports", " MUSIC ,,", ""}}
        \cup {[AllRequest EXCEPT !.keyword = Str("jazz")]}
        \cup {[AllRequest EXCEPT !.size = n] : n \in {0, 1, 250}}

\* the query parameters as the request carries them, defaults filled in
RequestArgs(req) == [req EXCEPT !.days_ahead = ToString(@), !.size = ToString(@)]

\* the requests the handler is given: every request of Requests against a
\* store that answers and one whose queries fail, one request for each other
\* DATABASE_URL and for a store that is down, and requests whose size or
\* days_ahead is no number
HandlerCalls ==
    {[url |-> DeployedUrl, args |-> RequestArgs(req), failure |-> f] :
        req \in Requests, f \in {"none", "query"}}
    \cup {[url |-> DeployedUrl, args |-> RequestArgs(AllRequest), failure |-> "init"]}
    \cup {[url |-> u, args |-> RequestArgs(AllRequest), failure |-> "none"] : u \in DatabaseUrls}
    \cup {[url |-> u, args |-> [RequestArgs(AllRequest) EXCEPT !.size = t], failure |-> "none"] :
            u \in {DeployedUrl, None}, t \in {"abc", ""}}
    \cup {[url |-> DeployedUrl, args |-> [RequestArgs(AllRequest) EXCEPT !.days_ahead = "soon"],
           failure |-> "none"]}

\* the limits get_table_data is handed
Limits == {None, Num(0), Num(1)}

Init ==
    /\ rows = {}
    /\ tables = AllTables
    /\ now = 0
    /\ last = NoOp
    /\ repeated = FALSE
    /\ raw = L1
    /\ res = [fn |-> "none", arg |-> None, out |-> None]
    /\ tx = NoTx

\* time passes at the store
Tick ==
    /\ now < MaxClock
    /\ now' = now + 1
    /\ UNCHANGED <<rows, tables, last, repeated, raw, res, tx>>

UpsertEvents ==
    /\ last.op = "none"
    /\ \E batch \in Batches : \E failAt \in 0..Len(batch) :
        LET r == _upsert_events(rows, tables, batch, failAt, now)
        IN  /\ rows' = r.rows
            /\ last' = [op |-> "_upsert_events", arg |-> None, batch |-> batch,
                        failAt |-> failAt, ret |-> r.ret, before |-> rows, ts |-> now,
                        sql |-> UpsertSql(tables, batch, failAt),
                        url |-> None, failure |-> "none", remote |-> 0, db |-> Absent]
    /\ repeated' = FALSE
    /\ UNCHANGED <<tables, now, raw, res, tx>>

\* the same batch is handed to _upsert_events a second time
UpsertAgain ==
    /\ last.op = "_upsert_events"
    /\ ~repeated
    /\ last.batch # <<>>
    /\ LET r == _upsert_events(rows, tables, last.batch, last.failAt, now)
       IN  /\ rows' = r.rows
           /\ last' = [last EXCEPT !.ret = r.ret, !.before = rows, !.ts = now,
                                   !.sql = UpsertSql(tables, last.batch, last.failAt)]
    /\ repeated' = TRUE
    /\ UNCHANGED <<tables, now, raw, res, tx>>

LoadPrgData ==
    /\ last.op = "none"
    /\ \E first \in RemoteOutcomes : \E second \in {ConnectionError, Ok(EmptyDict)} :
       \E failAt \in 0..MaxBatch :
        \E api_response \in {get_events(<<first, second>>)} :
        \E r \in {load_prg_data(rows, tables, api_response.ret, failAt, now)} :
            /\ failAt <= Len(r.batch)
            /\ rows' = r.rows
            /\ last' = [op |-> "load_prg_data", arg |-> api_response.ret, batch |-> r.batch,
                        failAt |-> failAt, ret |-> r.ret, before |-> rows, ts |-> now,
                        sql |-> UpsertSql(tables, r.batch, failAt),
                        url |-> None, failure |-> RemoteFailure(first),
                        remote |-> Len(<<first, second>>) - Len(api_response.net),
                        db |-> Absent]
    /\ repeated' = FALSE
    /\ UNCHANGED <<tables, now, raw, res, tx>>

DeleteTable ==
    /\ last.op = "none"
    /\ \E table_name \in TableNames : \E fails \in BOOLEAN :
        LET r == delete_table(rows, tables, table_name, fails)
        IN  /\ rows' = r.rows
            /\ tables' = r.tables
            /\ last' = [op |-> "delete_table", arg |-> Str(table_name), batch |-> <<>>,
                        failAt |-> 0, ret |-> r.ret, before |-> rows, ts |-> now,
                        sql |-> IF fails THEN <<>> ELSE delete_table_sql(tables, table_name),
                        url |-> None, failure |-> "none", remote |-> 0, db |-> Absent]
    /\ repeated' = FALSE
    /\ UNCHANGED <<now, raw, res, tx>>

\* get_table_data(table_name, limit): reads, commits nothing
GetTableData ==
    /\ last.op = "none"
    /\ \E table_name \in TableNames : \E limit \in Limits : \E fails \in BOOLEAN :
        \E frame \in get_table_data(rows, tables, table_name, limit, fails) :
            last' = [op |-> "get_table_data", arg |-> Dict([table_name |-> Str(table_name), limit |-> limit]),
                     batch |-> <<>>,
                     failAt |-> 0, ret |-> frame, before |-> rows, ts |-> now,
                     sql |-> <<get_table_data_sql(table_name, limit)>>,
                     url |-> None, failure |-> "none", remote |-> 0, db |-> Absent]
    /\ repeated' = FALSE
    /\ UNCHANGED <<rows, tables, now, raw, res, tx>>

ExecuteQuery ==
    /\ last.op = "none"
    /\ \E query \in Queries : \E fails \in BOOLEAN :
        last' = [op |-> "execute_query", arg |-> Str(query), batch |-> <<>>,
                 failAt |-> 0, ret |-> execute_query(rows, tables, query, fails),
                 before |-> rows, ts |-> now, sql |-> <<query>>,
                 url |-> None, failure |-> "none", remote |-> 0, db |-> Absent]
    /\ repeated' = FALSE
    /\ UNCHANGED <<rows, tables, now, raw, res, tx>>

\* GET /api/events: create_database_api() constructs the API, which creates the
\* missing tables; the handler's queries read and commit nothing
GetEventsUpcoming ==
    /\ last.op = "none"
    /\ \E c \in HandlerCalls :
        /\ tables' = IF api_events_sql(c.url, c.args, c.failure) = <<>> THEN tables
                     ELSE _init_database(tables)
        /\ last' = [op |-> "get_events_upcoming", arg |-> ParsedArgs(c.args), batch |-> <<>>,
                    failAt |-> 0,
                    ret |-> api_events(rows, tables, c.url, c.args, now, c.failure),
                    before |-> rows, ts |-> now,
                    sql |-> api_events_sql(c.url, c.args, c.failure),
                    url |-> c.url, failure |-> c.failure, remote |-> 0,
                    db |-> api_events_db(c.url, c.args, c.failure)]
    /\ repeated' = FALSE
    /\ UNCHANGED <<rows, now, raw, res, tx>>

\* one run of database_ctrl.py
PopulateEventsDatabase ==
    /\ last.op = "none"
    /\ \E c \in PopulateCalls :
        \E r \in {populate_events_database(rows, tables, c.url, c.initFails, c.net, now)} :
            /\ rows' = r.rows
            /\ tables' = r.tables
            /\ last' = [op |-> "populate_events_database", arg |-> None, batch |-> r.batch,
                        failAt |-> 0, ret |-> r.ret, before |-> rows, ts |-> now,
                        sql |-> r.sql, url |-> c.url,
                        failure |-> IF c.initFails THEN "init" ELSE "none",
                        remote |-> r.remote, db |-> r.db]
    /\ repeated' = FALSE
    /\ UNCHANGED <<now, raw, res, tx>>

\* the caller is done with the result
Return ==
    /\ last.op # "none"
    /\ last' = NoOp
    /\ repeated' = FALSE
    /\ UNCHANGED <<rows, tables, now, raw, res, tx>>

Next ==
    \/ Tick
    \/ UpsertEvents
    \/ UpsertAgain
    \/ LoadPrgData
    \/ DeleteTable
    \/ GetTableData
    \/ ExecuteQuery
    \/ GetEventsUpcoming
    \/ PopulateEventsDatabase
    \/ Return

Spec == Init /\ [][Next]_vars

-----------------------------------------------------------------------------
(* The pure functions, applied to every raw event of RawEvents *)

Rejected == [t |-> "rejected", v |-> ""]

\* normalise, write to an empty table, read the row back, denormalise
StoredRow(event) ==
    LET te == transformed_event(event)
    IN  IF te.t = "raise" THEN Raise
        ELSE LET w == _upsert_events({}, AllTables, <<te.v>>, 0, 0)
             IN  IF w.ret = Bool(TRUE) THEN Dict(CHOOSE r \in w.rows : TRUE) ELSE Rejected

StoreAndRead(event, decoded) ==
    LET r == StoredRow(event)
    IN  IF r.t = "dict" THEN DenormalizeRow(RowDict(FetchedRow(r.v, decoded))) ELSE r

InitNorm ==
    /\ rows = {}
    /\ tables = AllTables
    /\ now = 0
    /\ last = NoOp
    /\ repeated = FALSE
    /\ raw \in RawEvents
    /\ res = [fn |-> "none", arg |-> None, out |-> None]
    /\ tx = NoTx

Apply(fn, arg, out) ==
    /\ res.fn = "none"
    /\ res' = [fn |-> fn, arg |-> arg, out |-> out]
    /\ UNCHANGED <<rows, tables, now, last, repeated, raw, tx>>

ApplyExtractVenueInfo == Apply("extract_venue_info", None, extract_venue_info(raw))
ApplyExtractClassifications == Apply("extract_classifications", None, extract_classifications(raw))
ApplyTransformedEvent == Apply("transformed_event", None, transformed_event(raw))
ApplyTransformEventSimple == Apply("transform_event_simple", None, transform_event_simple(raw))
ApplyStoreAndRead ==
    \E decoded \in BOOLEAN : Apply("store_and_read", Bool(decoded), StoreAndRead(raw, decoded))

\* text in a JSONB column's place that json.loads does not accept: corrupt, legacy-empty
BadTexts == {"{not json", ""}

\* the listing of two fetched rows: the row of raw with one of its serialised
\* columns as fetched or replaced by bad text, followed by the row of L1
ApplyTransformRows ==
    /\ StoredRow(raw).t = "dict"
    /\ \E decoded \in BOOLEAN : \E c \in JsonColumns : \E txt \in BadTexts \cup {"as stored"} :
        LET r1 == FetchedRow(StoredRow(raw).v, decoded)
            r2 == FetchedRow(StoredRow(L1).v, decoded)
            e1 == IF txt = "as stored" THEN r1 ELSE [r1 EXCEPT ![c] = Str(txt)]
            events_list == <<RowDict(e1), RowDict(r2)>>
        IN  Apply("transform_rows", List(events_list), List(TransformRows(events_list)))

NextNorm ==
    \/ ApplyExtractVenueInfo
    \/ ApplyExtractClassifications
    \/ ApplyTransformedEvent
    \/ ApplyTransformEventSimple
    \/ ApplyStoreAndRead
    \/ ApplyTransformRows

SpecNorm == InitNorm /\ [][NextNorm]_vars

-----------------------------------------------------------------------------
(* get_events_all_pages applied to a remote search of MaxPages pages *)

InitPages ==
    /\ rows = {}
    /\ tables = AllTables
    /\ now = 0
    /\ last = NoOp
    /\ repeated = FALSE
    /\ raw = L1
    /\ \E site \in Sites : \E max_pages \in 0..MaxPages :
        res = [fn |-> "none", arg |-> [site |-> site, max_pages |-> max_pages], out |-> None]
    /\ tx = NoTx

GetEventsAllPages ==
    /\ res.fn = "none"
    /\ res' = [res EXCEPT !.fn = "get_events_all_pages",
                          !.out = get_events_all_pages(res.arg.max_pages, res.arg.site)]
    /\ UNCHANGED <<rows, tables, now, last, repeated, raw, tx>>

NextPages == GetEventsAllPages

SpecPages == InitPages /\ [][NextPages]_vars

-----------------------------------------------------------------------------
(* Two _upsert_events calls on two connections of the engine's pool.  The
   store is PostgreSQL at its default isolation level: a connection's rows
   are visible to the other one after commit; INSERT ... ON CONFLICT on an
   id that the other connection has written and not yet committed waits for
   that connection to end; the store ends a cycle of waiting connections by
   aborting one of them with a deadlock error. *)

Conns == {1, 2}

\* the records the two batches are made of: the same record of E1 in both,
\* and a record of E2
SharedEvent == transformed_event(L1).v
OtherEvent == transformed_event(L3).v
ConcurrentBatches == {<<SharedEvent>>, <<SharedEvent, OtherEvent>>, <<OtherEvent, SharedEvent>>}

\* the rows stored before the two calls, written at time 0
StoredBefore ==
    { {}, {InsertedRow(RowParams(transformed_event(L2).v), 0)},
      {InsertedRow(RowParams(SharedEvent), 0), InsertedRow(RowParams(OtherEvent), 0)} }

\* CURRENT_TIMESTAMP of a connection's transaction
TxTime(c) == c

InitConc ==
    /\ rows \in StoredBefore
    /\ tables = AllTables
    /\ now = 0
    /\ last = NoOp
    /\ repeated = FALSE
    /\ raw = L1
    /\ res = [fn |-> "none", arg |-> None, out |-> None]
    /\ \E b1 \in ConcurrentBatches : \E b2 \in ConcurrentBatches :
        tx = [before |-> rows,
              conn |-> [c \in Conns |->
                        [batch |-> IF c = 1 THEN b1 ELSE b2, i |-> 1, pending |-> {},
                         state |-> "running", ret |-> None]]]

\* the connection's next statement writes an id that the other connection
\* has written and not committed
Waits(c) ==
    /\ tx.conn[c].state = "running"
    /\ tx.conn[c].i <= Len(tx.conn[c].batch)
    /\ \E d \in Conns \ {c} :
        /\ tx.conn[d].state = "running"
        /\ tx.conn[c].batch[tx.conn[c].i].id \in {r["id"] : r \in tx.conn[d].pending}

\* the rows a connection sees: the committed ones under its own writes
Visible(c) ==
    {r \in rows : r["id"] \notin {w["id"] : w \in tx.conn[c].pending}} \cup tx.conn[c].pending

\* conn.execute of the next row of the batch
ConnExecute(c) ==
    /\ tx.conn[c].state = "running"
    /\ tx.conn[c].i <= Len(tx.conn[c].batch)
    /\ ~Waits(c)
    /\ LET p == RowParams(tx.conn[c].batch[tx.conn[c].i])
           written == {w["id"] : w \in tx.conn[c].pending} \cup {p["id"]}
       IN  tx' = [tx EXCEPT !.conn[c].i = @ + 1,
                            !.conn[c].pending =
                                {r \in UpsertRow(Visible(c), p, TxTime(c)) : r["id"] \in written}]
    /\ UNCHANGED <<rows, tables, now, last, repeated, raw, res>>

\* conn.commit() after the loop, return True
ConnCommit(c) ==
    /\ tx.conn[c].state = "running"
    /\ tx.conn[c].i > Len(tx.conn[c].batch)
    /\ rows' = Visible(c)
    /\ tx' = [tx EXCEPT !.conn[c].state = "committed", !.conn[c].pending = {},
                         !.conn[c].ret = Bool(TRUE)]
    /\ UNCHANGED <<tables, now, last, repeated, raw, res>>

\* both connections wait for each other: the store aborts one, whose
\* conn.execute raises; the except branch returns False and the connection
\* closes without commit
DeadlockDetected(c) ==
    /\ \A d \in Conns : Waits(d)
    /\ tx' = [tx EXCEPT !.conn[c].state = "failed", !.conn[c].pending = {},
                         !.conn[c].ret = Bool(FALSE)]
    /\ UNCHANGED <<rows, tables, now, last, repeated, raw, res>>

NextConc ==
    \E c \in Conns :
        \/ ConnExecute(c)
        \/ ConnCommit(c)
        \/ DeadlockDetected(c)

SpecConc == InitConc /\ [][NextConc]_vars

-----------------------------------------------------------------------------
(* Vocabulary of the properties *)

\* _upsert_events ran in the last operation, called directly or by load_prg_data
UpsertCalled ==
    \/ last.op = "_upsert_events"
    \/ last.op = "load_prg_data" /\ last.batch # <<>>

Committed == UpsertCalled /\ last.ret = Bool(TRUE)

RowsOf(rs, id) == {r \in rs : r["id"] = id}
IdsOf(rs) == {r["id"] : r \in rs}
BatchIds == {last.batch[i].id : i \in DOMAIN last.batch}

\* the rows without their update timestamp
NoUpdatedAt(rs) == {[c \in Columns \cup {"created_at"} |-> r[c]] : r \in rs}

\* the rows of the last batch that the store rejects
FailingRows == {i \in DOMAIN last.batch : RowFails(tables, last.batch, i, last.failAt)}

\* the last row of the batch with its id
LastOfId(i) == \A j \in DOMAIN last.batch : j > i => last.batch[j].id # last.batch[i].id

\* the mutable fields of the data model, as columns
SpecMutableColumns == {"name", "url", "date", "time", "status", "venue_name", "venue_city",
                       "classification_segment", "classification_genre"}

\* Python's bool is an int: True == 1, False == 0
PyInt(x) == IF x = Bool(TRUE) THEN 1 ELSE 0

-----------------------------------------------------------------------------
(* C1: upserting the same event batch twice leaves exactly one row per id of
   the batch; the second write leaves id and created_at as they were, and the
   table after the second write equals the table after the first except for
   updated_at. *)
C1_UpsertIdempotent ==
    repeated /\ last.ret = Bool(TRUE) =>
        /\ \A id \in BatchIds : Cardinality(RowsOf(rows, id)) = 1
        /\ NoUpdatedAt(rows) = NoUpdatedAt(last.before)

\* the second write of a batch has happened, at a later time than the first
C1_Witness ==
    /\ repeated /\ last.ret = Bool(TRUE)
    /\ \E r \in rows : r["id"] \in BatchIds /\ r["updated_at"] > r["created_at"]
    /\ rows # last.before

(* C2: when _upsert_events writes an event whose id is already stored, the
   row afterwards carries the incoming name, url, date, time, status, venue
   name, venue city, classification segment and classification genre, and its
   update timestamp is refreshed. *)
C2_MutableFieldsRefreshed ==
    Committed =>
        \A i \in DOMAIN last.batch :
            (last.batch[i].id \in IdsOf(last.before) /\ LastOfId(i)) =>
                \E r \in rows :
                    /\ r["id"] = last.batch[i].id
                    /\ \A c \in SpecMutableColumns : r[c] = RowParams(last.batch[i])[c]
                    /\ r["updated_at"] = last.ts

(* C3 as stated: when the store rejects one row of a batch, every other row
   of the batch is still written and committed. *)
C3_OtherRowsWritten ==
    (UpsertCalled /\ Cardinality(FailingRows) = 1) =>
        \A j \in DOMAIN last.batch \ FailingRows :
            \E r \in rows : r["id"] = last.batch[j].id /\ r["name"] = last.batch[j].name

(* C3 as amended: when the store rejects a row of a batch, no row of the batch
   is committed; the table is left as it was and False is returned. *)
C3_BatchAtomic ==
    (UpsertCalled /\ FailingRows # {}) =>
        /\ rows = last.before
        /\ last.ret = Bool(FALSE)

\* a batch of two whose second row is rejected after its first, new row was executed
C3_Witness ==
    /\ last.op = "_upsert_events"
    /\ Len(last.batch) = 2
    /\ FailingRows = {2}
    /\ last.batch[1].id \notin IdsOf(last.before)
    /\ rows = last.before

(* C4 as stated: _upsert_events returns the number of rows written, n - k for
   a batch of n rows of which k fail at the store. *)
C4_ReturnsCount ==
    last.op = "_upsert_events" =>
        PyInt(last.ret) = Len(last.batch) - Cardinality(FailingRows)

(* C4 as amended: _upsert_events returns a boolean, True exactly when none of
   the n rows failed (k = 0) and all n are then stored, False when a row failed
   and nothing is then stored; load_prg_data returns that same value. *)
C4_ReturnsAllOrNothing ==
    UpsertCalled =>
        /\ last.ret \in {Bool(TRUE), Bool(FALSE)}
        /\ last.ret = Bool(TRUE) <=> FailingRows = {}
        /\ last.ret = Bool(TRUE) => BatchIds \subseteq IdsOf(rows)
        /\ last.ret = Bool(FALSE) => rows = last.before

\* two rows written, none failed, and the answer is True
C4_Witness ==
    /\ last.op = "_upsert_events"
    /\ Len(last.batch) = 2
    /\ FailingRows = {}
    /\ Cardinality(rows) = Cardinality(last.before) + 2
    /\ last.ret = Bool(TRUE)

(* C5: no operation other than delete_table removes a stored row, a stored
   row changes only in an upsert whose batch carries its id, and delete_table
   leaves the table as it was or removes it with all its rows. *)
C5_RowsPersist ==
    [][ /\ (last'.op # "delete_table" \/ last' = last) =>
            \A r \in rows :
                \/ r \in rows'
                \/ /\ \E r2 \in rows' : r2["id"] = r["id"]
                   /\ last'.op \in {"_upsert_events", "load_prg_data", "populate_events_database"}
                   /\ last'.ret = Bool(TRUE)
                   /\ \E i \in DOMAIN last'.batch : last'.batch[i].id = r["id"]
        /\ (last'.op = "delete_table" /\ last' # last) =>
            \/ rows' = rows /\ tables' = tables
            \/ rows' = {} /\ "events" \notin tables' ]_vars

\* an upsert has changed one stored row and left a stored row of another id alone
C5_Witness ==
    /\ Committed
    /\ \E r \in last.before : r \notin rows /\ r["id"] \in IdsOf(rows)
    /\ \E r \in last.before : r \in rows /\ r["id"] \notin BatchIds

(* C6: a raw event that has an id and no other field is normalised and
   stored, with every other field null or empty. *)
C6_IdOnlyEventStored ==
    (/\ last.op = "load_prg_data"
     /\ last.arg = Dict("_embedded" :> Dict("events" :> List(<<L4>>)))
     /\ last.failAt = 0
     /\ "events" \in tables) =>
        /\ last.ret = Bool(TRUE)
        /\ \E r \in rows : r["id"] = Str("E2") /\ r["name"] = None

(* C10: in a batch load, a raw record with missing or unparseable nested
   fields does not abort the batch: every well-formed event of the same page
   is still written to the store. *)
C10_MalformedRecordSkipped ==
    (/\ last.op = "load_prg_data"
     /\ last.arg.t = "dict"
     /\ last.failAt = 0
     /\ "events" \in tables) =>
        LET events == Get(Get(last.arg, "_embedded", EmptyDict), "events", EmptyList).v
        IN  (\E i \in DOMAIN events : transformed_event(events[i]).t = "raise") =>
                \A j \in DOMAIN events :
                    (Get(events[j], "name", None) # None
                        /\ transformed_event(events[j]).t = "dict") =>
                        \E r \in rows : r["id"] = Get(events[j], "id", None)

-----------------------------------------------------------------------------
(* Vocabulary of the properties of the pure functions *)

HasKey(d, k) == d.t = "dict" /\ k \in DOMAIN d.v

\* the raw event with its venue list and its classification list cut to
\* their first element
FirstOnly(event) ==
    LET cut(x) == IF x.t = "list" /\ Len(x.v) >= 1 THEN List(<<x.v[1]>>) ELSE x
        e1 == IF HasKey(event, "classifications")
              THEN [event.v EXCEPT !["classifications"] = cut(@)]
              ELSE event.v
        e2 == IF HasKey(event, "_embedded") /\ HasKey(event.v["_embedded"], "venues")
              THEN [e1 EXCEPT !["_embedded"] = Venues(cut(@.v["venues"]))]
              ELSE e1
    IN  Dict(e2)

VenueListOf(event) ==
    IF HasKey(event, "_embedded") /\ HasKey(event.v["_embedded"], "venues")
    THEN event.v["_embedded"].v["venues"] ELSE Absent

ClassificationListOf(event) ==
    IF HasKey(event, "classifications") THEN event.v["classifications"] ELSE Absent

NonEmptyList(x) == x.t = "list" /\ Len(x.v) >= 1

\* the raw event has no venue list: the key is absent, or the list is empty
NoVenueList(event) ==
    \/ ~HasKey(event, "_embedded")
    \/ event.v["_embedded"].t = "dict" /\ VenueListOf(event) \in {Absent, EmptyList}

VenueColumns == {"venue_id", "venue_name", "venue_address", "venue_city", "venue_state",
                 "venue_country", "venue_postal_code", "venue_timezone", "venue_location"}

-----------------------------------------------------------------------------
(* C7: for a raw event whose venue list or classification list has one or
   more elements, the outcome of extract_venue_info and of
   extract_classifications is the outcome for the first element alone; later
   elements do not influence it, and a returned value is one venue or one
   classification. *)
C7_FirstElementWins ==
    /\ (res.fn = "extract_venue_info" /\ NonEmptyList(VenueListOf(raw))) =>
            /\ res.out = extract_venue_info(FirstOnly(raw))
            /\ res.out.t = "dict" =>
                    res.out.v.name = Get(VenueListOf(raw).v[1], "name", None)
    /\ (res.fn = "extract_classifications" /\ NonEmptyList(ClassificationListOf(raw))) =>
            /\ res.out = extract_classifications(FirstOnly(raw))
            /\ res.out.t = "dict" =>
                    res.out.v.family = Get(ClassificationListOf(raw).v[1], "family", Bool(FALSE))

\* a list of two venues of different names went in, the first one's name came out
C7_Witness ==
    /\ res.fn = "extract_venue_info"
    /\ VenueListOf(raw) = List(<<V2, V1>>)
    /\ res.out.t = "dict"
    /\ res.out.v.name = Str("O2 Arena")

(* C8 as stated: for a raw event without a venue list, venue extraction
   yields null, the storage-mode record has all venue columns null, and the
   response built from the stored row has venue = null. *)
C8_AllVenueColumnsNull ==
    NoVenueList(raw) =>
        /\ res.fn = "extract_venue_info" => res.out = None
        /\ (res.fn = "transformed_event" /\ res.out.t = "dict") =>
                \A c \in VenueColumns : res.out.v[c] = None
        /\ (res.fn = "store_and_read" /\ res.out.t = "dict") => res.out.v.venue = None

(* C8 as amended: for a raw event without a venue list, venue extraction
   yields null, the storage-mode record has every venue column null except
   venue_location, which is the empty mapping, and the response built from the
   stored row has venue = null. *)
C8_NoVenueStaysNull ==
    NoVenueList(raw) =>
        /\ res.fn = "extract_venue_info" => res.out = None
        /\ (res.fn = "transformed_event" /\ res.out.t = "dict") =>
                /\ \A c \in VenueColumns \ {"venue_location"} : res.out.v[c] = None
                /\ res.out.v.venue_location = EmptyDict
                /\ RowParams(res.out.v)["venue_location"] = Str("{}")
        /\ (res.fn = "store_and_read" /\ res.out.t = "dict") => res.out.v.venue = None

\* an event without a venue list was stored and read back
C8_Witness ==
    /\ NoVenueList(raw)
    /\ res.fn = "store_and_read"
    /\ res.out.t = "dict"
    /\ res.out.v.id = Str("E1")
    /\ res.out.v.venue = None

(* C9: extract_venue_info and extract_classifications never raise, whatever
   the raw event record holds. *)
C9_ExtractorsNeverRaise ==
    res.fn \in {"extract_venue_info", "extract_classifications"} => res.out.t # "raise"

-----------------------------------------------------------------------------
(* Vocabulary of the properties of the read path *)

\* response-mode normalisation: the top-level fields and the two extractors
ResponseMode(event) ==
    [id |-> Get(event, "id", None),
     name |-> Get(event, "name", None),
     date |-> Get(Get(Get(event, "dates", EmptyDict), "start", EmptyDict), "localDate", None),
     venue |-> extract_venue_info(event),
     classification |-> extract_classifications(event)]

\* x.k of an embedded object x, null when there is no object
Field(x, k) == IF x.t = "dict" THEN x.v[k] ELSE None

\* an event was normalised, stored, fetched and denormalised
ReadBack == res.fn = "store_and_read" /\ res.out.t = "dict"

(* C11: normalising a raw event in storage mode, storing it and denormalising
   the stored row yields the id, name, date, venue name and classification
   segment that response-mode normalisation of the same raw event yields, also
   for a venue without a name or with an empty name. *)
C11_RoundTrip ==
    ReadBack =>
        LET rm == ResponseMode(raw)
        IN  /\ res.out.v.id = rm.id
            /\ res.out.v.name = rm.name
            /\ res.out.v.date = rm.date
            /\ Field(res.out.v.venue, "name") = Field(rm.venue, "name")
            /\ Field(res.out.v.classifications, "segment") = Field(rm.classification, "segment")

(* C12: the response built from a stored row embeds a venue exactly when the
   row's venue_name is not null, and a classification exactly when the row's
   classification_segment is not null; an empty string counts as present. *)
C12_EmbeddedIffNonNull ==
    ReadBack =>
        /\ res.out.v.venue # None <=> StoredRow(raw).v["venue_name"] # None
        /\ res.out.v.classifications # None <=> StoredRow(raw).v["classification_segment"] # None

\* the columns the response carries as they are stored, under the same name
PlainFields == {"id", "name", "url", "date", "time", "datetime", "timezone", "status",
                "info", "please_note"}

\* the value fetched for a serialised column fails to decode
FailsToDecode(x) == Truthy(x) /\ json_loads(x) = Raise

\* what the response carries for a serialised column that decodes
Decoded(x, empty) == IF Truthy(x) THEN json_loads(x) ELSE empty

\* the response event e carries the fetched row d: its plain fields, its venue
\* and classification columns, and each serialised column decoded, or empty
\* when it fails to decode
CarriesRow(e, d) ==
    /\ e.t = "dict"
    /\ \A k \in PlainFields : e.v[k] = d.v[k]
    /\ Truthy(d.v["venue_name"]) =>
            /\ Field(e.v.venue, "name") = d.v["venue_name"]
            /\ Field(e.v.venue, "city") = d.v["venue_city"]
            /\ Field(e.v.venue, "location") =
                    IF FailsToDecode(d.v["venue_location"]) THEN EmptyDict
                    ELSE Decoded(d.v["venue_location"], EmptyDict)
    /\ Truthy(d.v["classification_segment"]) =>
            Field(e.v.classifications, "segment") = d.v["classification_segment"]
    /\ \A k \in {"price_ranges", "images"} :
            e.v[k] = IF FailsToDecode(d.v[k]) THEN EmptyList ELSE Decoded(d.v[k], EmptyList)

(* C13: when the value of price_ranges, images or venue_location of a fetched
   row fails to decode, that field of the response event is the empty sequence
   (the empty mapping for the location), no exception escapes, every other
   field of the row is returned with its stored value, and the other rows of
   the listing are returned as well. *)
C13_DecodeFailureDegrades ==
    res.fn = "transform_rows" =>
        /\ Len(res.out.v) = Len(res.arg.v)
        /\ \A i \in DOMAIN res.arg.v : CarriesRow(res.out.v[i], res.arg.v[i])

\* the first row of a listing of two has a price_ranges text that does not
\* decode: it is returned with an empty price_ranges, its name and its images,
\* and the second row is returned as well
C13_Witness ==
    /\ res.fn = "transform_rows"
    /\ res.arg.v[1].v["price_ranges"] = Str("{not json")
    /\ res.arg.v[1].v["images"] = Str("[\"i1\"]")
    /\ res.out.v[1].v.price_ranges = EmptyList
    /\ res.out.v[1].v.images = List(<<Str("i1")>>)
    /\ res.out.v[1].v.name = Str("Jazz Night")
    /\ Len(res.out.v) = 2
    /\ res.out.v[2].v.id = Str("E1")

(* C14: the priceRanges and images of a raw event come back from the read
   path with the same elements in the same order, the empty sequence when the
   raw event has none, and encoding the value read gives the stored text. *)
C14_SequencesRoundTrip ==
    ReadBack =>
        /\ res.out.v.price_ranges = Get(raw, "priceRanges", EmptyList)
        /\ res.out.v.images = Get(raw, "images", EmptyList)
        /\ Str(json_dumps(res.out.v.price_ranges)) = StoredRow(raw).v["price_ranges"]
        /\ Str(json_dumps(res.out.v.images)) = StoredRow(raw).v["images"]

-----------------------------------------------------------------------------
(* Vocabulary of the properties of GET /api/events *)

\* the request was answered with the success envelope
Answered ==
    /\ last.op = "get_events_upcoming"
    /\ last.ret.t = "dict"
    /\ last.ret.v.status = "success"

\* the day number of a stored date; the clock of the model counts days
Day(d) == CASE d = Str("2025-07-01") -> 1 [] d = Str("2025-07-02") -> 2

\* the lower-case form of the texts of the model
Lower(s) ==
    CASE s \in {"Prague", "prague"} -> "prague"
      [] s \in {"Berlin", "berlin"} -> "berlin"
      [] s \in {"Czechia", "czechia"} -> "czechia"
      [] s \in {"CZ", "cz"} -> "cz"
      [] s \in {"Music", "MUSIC", "music"} -> "music"
      [] s \in {"Sports", "sports"} -> "sports"
      [] s \in {"Jazz Night", "jazz night"} -> "jazz night"
      [] s \in {"Jazz Night II", "jazz night ii"} -> "jazz night ii"
      [] OTHER -> s

\* name contains keyword, both in lower case
Contains(name, keyword) == keyword = "jazz" /\ name \in {"jazz night", "jazz night ii"}

\* the filters of the request, applied to a stored row
DateMatches(r, req, today) ==
    r["date"] # None /\ today <= Day(r["date"]) /\ Day(r["date"]) <= today + req.days_ahead
CityMatches(r, req) ==
    \/ Lower(req.city.v) = "all"
    \/ r["venue_city"] # None /\ Lower(r["venue_city"].v) = Lower(req.city.v)
CountryMatches(r, req) ==
    \/ Lower(req.country.v) = "all"
    \/ r["venue_country"] # None /\ Lower(r["venue_country"].v) = Lower(req.country.v)
KeywordMatches(r, req) ==
    req.keyword = None \/ Contains(Lower(r["name"].v), Lower(req.keyword.v))
ClassificationMatches(r, req) ==
    LET cl == ClassificationList(req.classification)
    IN  \/ cl \in {<<>>, <<"all">>}
        \/ /\ r["classification_segment"] # None
           /\ \E i \in DOMAIN cl : Lower(r["classification_segment"].v) = Lower(cl[i])

\* the stored rows that match the filter of the last request
Matching ==
    {r \in last.before :
        /\ DateMatches(r, last.arg.v, last.ts)
        /\ CityMatches(r, last.arg.v)
        /\ CountryMatches(r, last.arg.v)
        /\ KeywordMatches(r, last.arg.v)
        /\ ClassificationMatches(r, last.arg.v)}

\* the ids of the events of the response
ReturnedIds == {last.ret.v.events[i].v.id : i \in DOMAIN last.ret.v.events}

(* C15: the pagination of the response has total_events equal to the number
   of stored rows that match the filter, events_per_page equal to the
   requested size clamped to 200, and total_pages equal to the ceiling of
   total_events / events_per_page. *)
C15_PaginationCounts ==
    Answered =>
        LET p == last.ret.v.pagination
        IN  /\ p.total_events = Cardinality(Matching)
            /\ p.events_per_page = PyMin(last.arg.v.size, 200)
            /\ p.total_pages * p.events_per_page >= p.total_events
            /\ (p.total_pages - 1) * p.events_per_page < p.total_events

(* C16: the page holds pageSize rows when that many matching rows remain and
   the remaining matching rows otherwise, and events_on_page is never above
   events_per_page. *)
C16_PageSize ==
    Answered =>
        LET p == last.ret.v.pagination
        IN  /\ p.events_on_page = PyMin(p.events_per_page, Cardinality(Matching))
            /\ Len(last.ret.v.events) = p.events_on_page
            /\ p.events_on_page <= p.events_per_page

(* C18: of the stored rows that pass the other filters and fit the page, the
   response returns exactly those whose classification segment equals,
   ignoring case, one of the requested names; an empty list of names and the
   name "all" do not restrict. *)
C18_ClassificationFilter ==
    Answered =>
        \A r \in last.before :
            (/\ DateMatches(r, last.arg.v, last.ts)
             /\ CityMatches(r, last.arg.v)
             /\ CountryMatches(r, last.arg.v)
             /\ KeywordMatches(r, last.arg.v)
             /\ Cardinality(last.before) <= last.ret.v.pagination.events_per_page) =>
                (r["id"] \in ReturnedIds <=> ClassificationMatches(r, last.arg.v))

\* the statements the operation sends when it is handed its reference
\* arguments: the default request, table events without a limit
ReferenceSql(op) ==
    CASE op = "get_events_upcoming" -> get_events_upcoming_sql(DefaultRequest)
      [] op = "get_table_data" -> <<get_table_data_sql("events", None)>>
      [] op = "delete_table" -> delete_table_sql({"events"}, "events")

(* C20: the text of every statement sent to the store is the same whatever
   values the caller supplies (city, country, keyword, classification, size,
   table name, limit): a call sends the text the reference call of the same
   operation sends, and the values travel as bound parameters only. *)
C20_QueryTextIndependent ==
    last.op \in {"get_events_upcoming", "get_table_data", "delete_table"} =>
        \A i \in DOMAIN last.sql : last.sql[i] = ReferenceSql(last.op)[i]

-----------------------------------------------------------------------------
(* GET /api/events: failures *)

\* a GET /api/events request has been handled
Handled == last.op = "get_events_upcoming"

\* the response is the error envelope under HTTP 500
IsErrorEnvelope(ret) ==
    /\ ret.t = "dict"
    /\ ret.v.status = "error"
    /\ ret.v.code = 500
    /\ "error" \in DOMAIN ret.v

\* the response is the success envelope
IsSuccessEnvelope(ret) ==
    /\ ret.t = "dict"
    /\ ret.v.status = "success"
    /\ ret.v.code = 200
    /\ DOMAIN ret.v = {"events", "pagination", "filters_applied", "status", "code"}

\* C21: when the store fails the handler's queries, GET /api/events answers
\* with the error envelope (status "error", HTTP 500) and never with a success
\* response around an empty or partial event list
C21_QueryFailureIsError ==
    (Handled /\ last.failure = "query" /\ last.sql # <<>>) => IsErrorEnvelope(last.ret)

\* C23: every GET /api/events request, whatever its query parameters, ends in
\* the success envelope or in the error envelope under HTTP 500; no failure
\* leaves the handler in another form
C23_TwoEnvelopes ==
    Handled => (IsSuccessEnvelope(last.ret) \/ IsErrorEnvelope(last.ret))

-----------------------------------------------------------------------------
(* the remote event search *)

\* load_prg_data has run and its remote call failed
RemoteCallFailed == last.op = "load_prg_data" /\ last.failure # "none"

\* C22: a failed remote event-search call (network error, timeout, HTTP error
\* status, bad JSON) is issued once and not again; get_events re-raises, and
\* load_prg_data returns False and sends nothing to the store
C22_FailedCallOnce ==
    RemoteCallFailed =>
        /\ last.remote = 1
        /\ last.arg = Raise
        /\ last.ret = Bool(FALSE)
        /\ last.sql = <<>>
        /\ rows = last.before

\* a load whose remote call ran into a timeout, with events already stored
C22_Witness ==
    /\ RemoteCallFailed
    /\ last.failure = "Timeout"
    /\ last.remote = 1
    /\ last.before # {}

-----------------------------------------------------------------------------
(* the reduced record *)

\* transform_event_simple has been applied to the raw event
Simplified == res.fn = "transform_event_simple"

\* the fields the claim gives the reduced record, under the names of the
\* storage-mode record
ProjectedColumns == {"id", "name", "date", "time", "venue_name", "classification_segment", "url"}

\* the keys transform_event_simple writes, and the storage-mode field each one holds
SimpleKeys == {"id", "name", "date", "time", "venue_name", "classification", "url"}
StorageColumn(k) == IF k = "classification" THEN "classification_segment" ELSE k

\* C24 as stated: the reduced record is the storage-mode record restricted to
\* id, name, date, time, venue_name, classification_segment and url, with the
\* same field names and no other field
C24_StrictProjection ==
    (Simplified /\ transformed_event(raw).t = "dict") =>
        /\ res.out.t = "dict"
        /\ DOMAIN res.out.v = ProjectedColumns
        /\ \A k \in ProjectedColumns : res.out.v[k] = transformed_event(raw).v[k]

\* C24 amended: the reduced record has exactly the keys id, name, date, time,
\* venue_name, classification and url; classification holds the storage-mode
\* record's classification_segment and every other key the value of the field
\* of the same name, for every event load_prg_data builds a record of
C24_ProjectionRenamed ==
    (Simplified /\ transformed_event(raw).t = "dict") =>
        /\ res.out.t = "dict"
        /\ DOMAIN res.out.v = SimpleKeys
        /\ \A k \in SimpleKeys : res.out.v[k] = transformed_event(raw).v[StorageColumn(k)]

\* an event with a venue name and a segment, reduced
C24_Witness ==
    /\ Simplified
    /\ res.out.t = "dict"
    /\ res.out.v["venue_name"].t = "str"
    /\ res.out.v["classification"] = Str("Music")
    /\ transformed_event(raw).v["classification_genre"] # Str("Music")

-----------------------------------------------------------------------------
(* calls per request *)

\* the statements of the request that follow those of the constructor: the
\* queries the handler hands to execute_query
HandlerQueries == SubSeq(last.sql, Len(_init_database_sql) + 1, Len(last.sql))

\* C25 as stated: one GET /api/events request sends the store at most one
\* query and makes no remote call, and one batch load makes at most one
\* remote call
C25_OneQueryPerRequest ==
    /\ Handled => (Len(HandlerQueries) <= 1 /\ last.remote = 0)
    /\ last.op = "load_prg_data" => last.remote <= 1

\* C25 amended: one GET /api/events request makes no remote call; when the
\* API object is built it sends the schema statements of the constructor and
\* then three queries, the filter, the column and the count query in this
\* order, and otherwise it sends nothing; one batch load makes exactly one
\* remote call
C25_ThreeQueriesPerRequest ==
    /\ Handled =>
        /\ last.remote = 0
        /\ \/ last.sql = <<>>
           \/ /\ SubSeq(last.sql, 1, Len(_init_database_sql)) = _init_database_sql
              /\ HandlerQueries = <<base_query, columns_query, total_count_query>>
    /\ last.op = "load_prg_data" => last.remote = 1

\* a request answered with the success envelope after its three queries
C25_Witness ==
    /\ Handled
    /\ IsSuccessEnvelope(last.ret)
    /\ Len(HandlerQueries) = 3

-----------------------------------------------------------------------------
(* the frame of the upsert *)

\* the columns the claim lists as outside the update list
FrameColumns == {"id", "created_at", "timezone", "venue_id", "venue_address", "venue_state",
                 "venue_country", "venue_postal_code", "venue_timezone", "venue_location",
                 "classification_segment", "classification_genre", "classification_subgenre",
                 "classification_type", "classification_subtype", "classification_family",
                 "price_ranges", "images", "info", "please_note"}

\* C27: when _upsert_events writes an event whose id is already stored, the
\* row keeps the values of id, created_at, timezone, venue_id, venue_address,
\* venue_state, venue_country, venue_postal_code, venue_timezone,
\* venue_location, the classification columns, price_ranges, images, info and
\* please_note that it had before; rows with other ids stay as they were
C27_FrameOfUpsert ==
    UpsertCalled =>
        \A old \in last.before :
            /\ \E r \in rows : r["id"] = old["id"] /\ \A c \in FrameColumns : r[c] = old[c]
            /\ old["id"] \notin BatchIds => old \in rows

\* a committed upsert of a stored id whose record carries another value in a
\* frame column and another in an updated column, at a later time, next to a
\* stored row with another id
C27_Witness ==
    /\ Committed
    /\ \E old \in last.before : \E i \in DOMAIN last.batch :
        /\ last.batch[i].id = old["id"]
        /\ \E c \in FrameColumns \ {"id", "created_at"} : RowParams(last.batch[i])[c] # old[c]
        /\ \E c \in UpdateColumns : RowParams(last.batch[i])[c] # old[c]
        /\ old["created_at"] # last.ts
    /\ \E other \in last.before : other["id"] \notin BatchIds

-----------------------------------------------------------------------------
(* concurrent upserts *)

\* both calls have returned
BothReturned == tx.conn # <<>> /\ \A c \in Conns : tx.conn[c].state \in {"committed", "failed"}

\* the data columns of the rows with the id
DataOf(rs, id) == {[c \in Columns |-> r[c]] : r \in RowsOf(rs, id)}

\* C26: whenever two concurrent upsert batches carry the same event record,
\* in every interleaving both calls succeed, and the store ends with exactly
\* one row of that id whose field values are those a single upsert of the
\* record would have left
C26_ConcurrentDuplicatesSafe ==
    BothReturned =>
        /\ \A c \in Conns : tx.conn[c].ret = Bool(TRUE)
        /\ Cardinality(RowsOf(rows, SharedEvent.id)) = 1
        /\ DataOf(rows, SharedEvent.id)
             = DataOf(UpsertRow(tx.before, RowParams(SharedEvent), 1), SharedEvent.id)

-----------------------------------------------------------------------------
(* paging *)

\* get_events_all_pages has returned
PagesFetched == res.fn = "get_events_all_pages"

\* what the remote answers to the request of page i
AnswerOf(i) == res.arg.site[i + 1]

\* the events of an answer: none when the call failed or the payload has none
EventsOf(outcome) ==
    IF RemoteFailure(outcome) # "none" THEN <<>>
    ELSE IF "_embedded" \notin DOMAIN outcome.body.v THEN <<>>
    ELSE outcome.body.v["_embedded"].v["events"].v

\* the totalPages of an answer with events, 1 when the page info has none
TotalPagesOf(outcome) ==
    IF "totalPages" \in DOMAIN outcome.body.v["page"].v
    THEN outcome.body.v["page"].v["totalPages"]
    ELSE Num(1)

\* page i ends the paging: it is empty, it raises an error (the call fails,
\* or its totalPages is no number), or i >= totalPages - 1
StopsAt(i) ==
    \/ RemoteFailure(AnswerOf(i)) # "none"
    \/ EventsOf(AnswerOf(i)) = <<>>
    \/ TotalPagesOf(AnswerOf(i)).t # "int"
    \/ i >= TotalPagesOf(AnswerOf(i)).v - 1

RECURSIVE EventsOfPages(_)
\* the events of the pages 0 .. k - 1, in page order
EventsOfPages(k) == IF k = 0 THEN <<>> ELSE EventsOfPages(k - 1) \o EventsOf(AnswerOf(k - 1))

\* C28: get_events_all_pages returns after at most max_pages remote calls; it
\* asks for the pages 0, 1, 2, ... in this order, none skipped or repeated; it
\* stops at the first page that is empty, raises an error or has an index
\* >= totalPages - 1; its result is the concatenation, in page order, of the
\* events of the pages it fetched
C28_PagingStops ==
    PagesFetched =>
        LET requested == res.out.requested
            calls == Len(requested)
        IN  /\ calls <= res.arg.max_pages
            /\ requested = [i \in 1..calls |-> i - 1]
            /\ \A i \in 0..(calls - 2) : ~StopsAt(i)
            /\ calls < res.arg.max_pages => (calls > 0 /\ StopsAt(calls - 1))
            /\ res.out.ret = List(EventsOfPages(calls))

\* two pages fetched of three allowed: the second one is the last page by its
\* totalPages, and the events of both are returned
C28_Witness ==
    /\ PagesFetched
    /\ res.arg.max_pages = 3
    /\ res.out.requested = <<0, 1>>
    /\ res.out.ret = List(<<L3, L4, L5>>)
    /\ TotalPagesOf(AnswerOf(1)) = Num(2)

-----------------------------------------------------------------------------
(* the factory *)

\* an operation that starts with create_database_api() has run
FactoryCalled ==
    /\ last.op \in {"get_events_upcoming", "populate_events_database"}
    /\ last.db # Absent

\* DATABASE_URL is set and contains the text postgresql
UrlNamesPostgresql == last.url = Str("postgresql://u@h/db")

\* C29: create_database_api gives a PostgreSQL API object exactly when
\* DATABASE_URL is set and contains 'postgresql' (and the constructor reaches
\* the store); for every other DATABASE_URL, unset or 'postgres://...'
\* included, it gives None, and the caller fails at its first store
\* operation: the handler answers the error envelope and
\* populate_events_database returns False, with no statement sent
C29_FactoryNeedsPostgresql ==
    FactoryCalled =>
        /\ (UrlNamesPostgresql /\ last.failure # "init") <=> last.db.t = "dict"
        /\ ~UrlNamesPostgresql <=> last.db = None
        /\ last.url = Str("postgres://u@h/db") =>
            PostgreSQLDatabaseAPI(last.url, FALSE) = Dict([database_url |-> Str("postgresql://u@h/db")])
        /\ last.db = None =>
            /\ last.sql = <<>>
            /\ last.remote = 0
            /\ rows = last.before
            /\ last.op = "get_events_upcoming" => IsErrorEnvelope(last.ret)
            /\ last.op = "populate_events_database" => last.ret = Bool(FALSE)

\* a population run under a postgres:// URL, with events in the store
C29_Witness ==
    /\ FactoryCalled
    /\ last.op = "populate_events_database"
    /\ last.url = Str("postgres://u@h/db")
    /\ last.db = None
    /\ last.ret = Bool(FALSE)
    /\ last.before # {}

====
